---- MODULE Spec2Model ----
(***************************************************************************)
(* Model of the RAG workflow of UET-Department-Agent:                      *)
(*   src/src/nodes/reactnode.py              RAGNodes (the three stages)   *)
(*   src/src/graph_builder/graph_builder.py  GraphBuilder (build, run)     *)
(*                                                                         *)
(* Texts the code only compares by substring (answers) are sequences of    *)
(* word tokens; the Language Model's reply, which the code trims and       *)
(* uppercases, is a sequence of characters.  An optional value (Python's   *)
(* None or a value) is a sequence of length 0 or 1.                        *)
(***************************************************************************)
EXTENDS Integers, Sequences, FiniteSets, TLC

\* ------------------------------------------------------------- bounds
\* concurrent invocations of GraphBuilder.run on one instance
NumRuns == 2
\* length of the Language Model replies enumerated for the guardrail rule
MaxReplyLen == 4

Runs == 1..NumRuns

\* ------------------------------------------------------ optional values
NoneVal == <<>>
Some(x) == <<x>>

\* ---------------------------------------------------------------- texts
\* reactnode.py:56 and graph_builder.py:31 (the substring lacks the full stop)
Sentinel == <<"I", "only", "answer", "department", "information", ".">>
SentinelSub == <<"I", "only", "answer", "department", "information">>
\* reactnode.py:127
Fallback == <<"Could", "not", "generate", "answer", ".">>
EmptyText == <<>>
\* an answer of the agent that is none of the above
AnswerText == <<"The", "HOD", "is", "X", ".">>
\* an answer of the agent that quotes the refusal inside a longer text
QuotingText == <<"Sorry", ":">> \o Sentinel

\* Python's  sub in s  on sequences
Contains(s, sub) ==
    \E i \in 0..(Len(s) - Len(sub)) : SubSeq(s, i + 1, i + Len(sub)) = sub

\* Python's truthiness of an optional str: None and "" are falsy
Truthy(opt) == opt # NoneVal /\ opt[1] # EmptyText

\* ------------------------------------------------------------ characters
LowerLetters == <<"e", "k", "n", "o", "s", "w", "y">>
UpperLetters == <<"E", "K", "N", "O", "S", "W", "Y">>
IsSpace(c) == c \in {" ", "\n", "\t"}

\* str.upper on one character
UpperChar(c) ==
    IF \E i \in 1..Len(LowerLetters) : LowerLetters[i] = c
    THEN UpperLetters[CHOOSE i \in 1..Len(LowerLetters) : LowerLetters[i] = c]
    ELSE c

\* str.upper
Upper(s) == [i \in 1..Len(s) |-> UpperChar(s[i])]

SetMin(S) == CHOOSE x \in S : \A y \in S : x <= y
SetMax(S) == CHOOSE x \in S : \A y \in S : x >= y

\* str.strip: leading and trailing whitespace removed
Strip(s) ==
    LET keep == {i \in 1..Len(s) : ~IsSpace(s[i])}
    IN IF keep = {} THEN <<>> ELSE SubSeq(s, SetMin(keep), SetMax(keep))

\* ------------------------------------------------------------ RAGState
DefaultDocs == <<>>
DefaultAnswer == EmptyText
RAGState(question, retrieved_docs, answer) ==
    [question |-> question, retrieved_docs |-> retrieved_docs, answer |-> answer]

\* -------------------------------------------------------------- inputs
Questions == {"Hi", "Who is the HOD?"}

\* replies of the Language Model to the guardrail prompt, in the workflow
Replies == { <<"Y", "E", "S">>, <<" ", "n", "o", ".">> }

\* the Document Store: a fixed index, so retrieve is a function of the query;
\* the passages come ranked, here not in alphabetical order
Retrieve(query) == IF query = "Hi" THEN <<>> ELSE <<"d2", "d1", "d3">>

\* messages of the agent: with a content, with content None, without content
Msg(content) == [type |-> "ai", content |-> Some(content)]
MsgNone == [type |-> "ai", content |-> NoneVal]
MsgBare == [type |-> "tool"]
AgentResults ==
    { <<>>,
      <<MsgNone>>,
      <<Msg(AnswerText), MsgBare>>,
      <<Msg(AnswerText), Msg(EmptyText)>>,
      <<Msg(EmptyText), Msg(AnswerText)>>,
      <<Msg(AnswerText), Msg(Sentinel)>>,
      <<Msg(QuotingText)>> }

\* ------------------------------------------------------ stage functions
\* getattr(answer_msg, "content", None)
GetContent(m) == IF "content" \in DOMAIN m THEN m.content ELSE NoneVal

\* faulty variant: the decision compared with "NO" instead of searched for it
IsRefusal_exact(reply) == Upper(Strip(reply)) = <<"N", "O">>

\* the guardrail's decision: "NO" anywhere in the trimmed, uppercased reply
IsRefusal(reply) == Contains(Upper(Strip(reply)), <<"N", "O">>)

\* faulty variant: the refusal is returned without the question
guardrail_noquestion(state, reply) ==
    IF IsRefusal(reply)
    THEN RAGState("", DefaultDocs, Sentinel)
    ELSE RAGState(state.question, DefaultDocs, EmptyText)

guardrail(state, reply) ==
    IF IsRefusal(reply)
    THEN RAGState(state.question, DefaultDocs, Sentinel)
    ELSE RAGState(state.question, DefaultDocs, EmptyText)

\* faulty variant: only the best passage is kept
retrieve_docs_top1(state) ==
    LET docs == Retrieve(state.question)
    IN RAGState(state.question, IF docs = <<>> THEN <<>> ELSE <<docs[1]>>, DefaultAnswer)

\* faulty variant: the stage also reports its outcome in answer
retrieve_docs_answered(state) ==
    LET docs == Retrieve(state.question)
    IN RAGState(state.question, docs, IF docs = <<>> THEN Fallback ELSE DefaultAnswer)

retrieve_docs(state) ==
    LET docs == Retrieve(state.question)
    IN RAGState(state.question, docs, DefaultAnswer)

\* faulty variant: the fallback only replaces None, not the empty string
generate_answer_none_only(state, messages) ==
    LET answer == IF messages # <<>>
                  THEN GetContent(messages[Len(messages)])
                  ELSE NoneVal
    IN RAGState(state.question, state.retrieved_docs,
                IF answer # NoneVal THEN answer[1] ELSE Fallback)

\* faulty variant: the passages are not carried into the returned state
generate_answer_nodocs(state, messages) ==
    LET answer == IF messages # <<>>
                  THEN GetContent(messages[Len(messages)])
                  ELSE NoneVal
    IN RAGState(state.question, DefaultDocs,
                IF Truthy(answer) THEN answer[1] ELSE Fallback)

\* faulty variant: no fallback, a missing content becomes the empty answer
generate_answer_nofallback(state, messages) ==
    LET answer == IF messages # <<>>
                  THEN GetContent(messages[Len(messages)])
                  ELSE NoneVal
    IN RAGState(state.question, state.retrieved_docs,
                IF Truthy(answer) THEN answer[1] ELSE EmptyText)

generate_answer(state, messages) ==
    LET answer == IF messages # <<>>
                  THEN GetContent(messages[Len(messages)])
                  ELSE NoneVal
    IN RAGState(state.question, state.retrieved_docs,
                IF Truthy(answer) THEN answer[1] ELSE Fallback)

\* faulty variant: the answer compared with the phrase instead of searched for it
check_guardrail_eq(state) ==
    IF Truthy(Some(state.answer)) /\ state.answer = SentinelSub
    THEN "end"
    ELSE "continue"

check_guardrail(state) ==
    IF Truthy(Some(state.answer)) /\ Contains(state.answer, SentinelSub)
    THEN "end"
    ELSE "continue"

\* faulty variant: a plain edge guardrail -> retriever
AfterGuardrail_always(state) == "retriever"

\* faulty variant: "continue" mapped to the responder
AfterGuardrail_skip(state) ==
    IF check_guardrail(state) = "end" THEN "done" ELSE "responder"

\* faulty variant: the two entries of the edge mapping exchanged
AfterGuardrail_swapped(state) ==
    IF check_guardrail(state) = "end" THEN "retriever" ELSE "done"

\* the conditional edges of the guardrail node ("end": END, "continue": retriever)
AfterGuardrail(state) ==
    IF check_guardrail(state) = "end" THEN "done" ELSE "retriever"

\* the keyword arguments each stage passes to RAGState
guardrailFields == {"question", "answer"}
\* faulty variant: the Retrieval Stage passes an answer too
retrieveFields_answer == {"question", "retrieved_docs", "answer"}
retrieveFields == {"question", "retrieved_docs"}
generateFields == {"question", "retrieved_docs", "answer"}

\* faulty variant: a reply that is neither YES nor NO is asked for again
GuardrailCalls_retry(rep) ==
    IF Upper(Strip(rep)) \in { <<"Y", "E", "S">>, <<"N", "O">> } THEN 1 ELSE 2

\* reactnode.py:47: the guardrail calls the Language Model once, in no loop
GuardrailCalls(rep) == 1

\* ------------------------------------------------ the /chat handler
\* main.py:115  doc.page_content[:200]
SnippetLen == 200

\* the passages of the index: d2 carries a source and a page, d1 a source
\* only, d3 a page only and a text longer than a snippet
Metadata(d) ==
    CASE d = "d2" -> [source |-> "prospectus.pdf", page |-> 3]
      [] d = "d1" -> [source |-> "prospectus.pdf"]
      [] OTHER -> [page |-> 7]
PageContent(d) ==
    CASE d = "d2" -> <<"Head", "of", "department">>
      [] d = "d1" -> <<"Fee", "structure">>
      [] OTHER -> [i \in 1..(SnippetLen + 1) |-> "x"]
Ellipsis == "..."
Snippet(content) ==
    SubSeq(content, 1, IF Len(content) < SnippetLen THEN Len(content) ELSE SnippetLen)
        \o <<Ellipsis>>

\* main.py:108-111: "<source> (Page <page>)" when the page is truthy
SourceLabel(meta) ==
    LET source_name == IF "source" \in DOMAIN meta THEN meta.source ELSE "Unknown Source"
        page_num == IF "page" \in DOMAIN meta THEN Some(meta.page) ELSE NoneVal
    IN [source |-> source_name,
        page |-> IF page_num # NoneVal /\ page_num[1] # 0 THEN page_num ELSE NoneVal]

\* main.py:113-116
Citation(d) ==
    [source |-> SourceLabel(Metadata(d)), page_content |-> Snippet(PageContent(d))]

\* faulty variant: only the passages that carry a page number are cited
Citations_paged(docs) ==
    LET RECURSIVE Paged(_)
        Paged(ds) ==
            IF ds = <<>> THEN <<>>
            ELSE IF "page" \in DOMAIN Metadata(Head(ds))
                 THEN <<Citation(Head(ds))>> \o Paged(Tail(ds))
                 ELSE Paged(Tail(ds))
    IN Paged(docs)

\* main.py:104-116: one citation per retrieved document, in order
Citations(docs) ==
    IF docs # <<>> THEN [i \in 1..Len(docs) |-> Citation(docs[i])] ELSE <<>>

\* faulty variant: the handler does not look at rag_system
ChatGate_open(ready) == "run"

\* main.py:92: the request runs the workflow only when rag_system is set
ChatGate(ready) == IF ~ready THEN "reject" ELSE "run"

\* the responses of /chat: main.py:93, :118-121, :124
ChatPending == [status |-> 0]
ChatNotReady == [status |-> 503, detail |-> "System is still initializing"]
ChatOk(res) ==
    [status |-> 200, answer |-> res.answer, citations |-> Citations(res.retrieved_docs)]
ChatError(text) == [status |-> 500, detail |-> text]

\* str(e) of the exception each external call raises
ErrorText(at) ==
    CASE at = "guardrail" -> "llm error"
      [] at = "retriever" -> "store error"
      [] at = "build_agent" -> "agent construction error"
      [] OTHER -> "agent error"

\* --------------------------------------------------------------- state
VARIABLES
    rag_system,     \* main.py:32: whether the host has set its workflow handle
    http,           \* the /chat response of a request: NoneVal for a direct call
    error,          \* the exception that ended the invocation, if one did
    calls,          \* the run's calls of the Language Model (guardrail) and agent
    graph,          \* GraphBuilder.graph: 0 is None, n the n-th compiled graph
    agent,          \* RAGNodes._agent: 0 is None, n the n-th agent built
    graphBuilds,    \* number of graphs compiled so far
    agentBuilds,    \* number of agents constructed so far
    pc,             \* where each invocation of run is
    arg,            \* the question each invocation was called with
    state,          \* the RAGState of each invocation
    result,         \* what run returned: NoneVal until it returns
    reply,          \* the Language Model's reply to the guardrail, once made
    storeDocs,      \* what the Document Store returned to the Retrieval Stage
    agentMsgs,      \* the agent's messages, once it returned
    trace,          \* the stages executed, in order
    retrieveInvoked,\* whether the run has invoked the Document Store's retrieve
    answerWrites,   \* <<stage, value>> for each stage that passed answer
    gpc, gquestion, greply, gstate  \* the guardrail applied to one reply

vars == <<rag_system, http, error, calls,
          graph, agent, graphBuilds, agentBuilds, pc, arg, state, result,
          reply, storeDocs, agentMsgs, trace, retrieveInvoked, answerWrites,
          gpc, gquestion, greply, gstate>>

shared == <<rag_system, graph, agent, graphBuilds, agentBuilds>>
history == <<reply, storeDocs, agentMsgs, trace, retrieveInvoked, answerWrites,
             error, calls>>
gvars == <<gpc, gquestion, greply, gstate>>

NoState == RAGState("", DefaultDocs, DefaultAnswer)

NoCalls == [llm |-> 0, agent |-> 0]

InitWorkflow ==
    /\ rag_system = FALSE
    /\ http = [r \in Runs |-> NoneVal]
    /\ error = [r \in Runs |-> NoneVal]
    /\ calls = [r \in Runs |-> NoCalls]
    /\ graph = 0
    /\ agent = 0
    /\ graphBuilds = 0
    /\ agentBuilds = 0
    /\ pc = [r \in Runs |-> "idle"]
    /\ arg = [r \in Runs |-> ""]
    /\ state = [r \in Runs |-> NoState]
    /\ result = [r \in Runs |-> NoneVal]
    /\ reply = [r \in Runs |-> NoneVal]
    /\ storeDocs = [r \in Runs |-> NoneVal]
    /\ agentMsgs = [r \in Runs |-> NoneVal]
    /\ trace = [r \in Runs |-> <<>>]
    /\ retrieveInvoked = [r \in Runs |-> FALSE]
    /\ answerWrites = [r \in Runs |-> <<>>]

InitGuard ==
    /\ gpc = "off"
    /\ gquestion = ""
    /\ greply = <<>>
    /\ gstate = NoState

Init == InitWorkflow /\ InitGuard

\* ------------------------------------------------------------- actions
\* the host's startup: main.py:71-78 sets rag_system and builds the graph
\* (streamlit_app.py:52-53 alike); it completes before any request is served
EagerBuild ==
    /\ graphBuilds = 0
    /\ \A r \in Runs : pc[r] \in {"idle", "rejected"}
    /\ rag_system' = TRUE
    /\ graph' = graphBuilds + 1
    /\ graphBuilds' = graphBuilds + 1
    /\ UNCHANGED <<agent, agentBuilds, pc, arg, state, result, http, history, gvars>>

\* run(question) is called directly on an instance that no host wraps
Run(r) ==
    /\ pc[r] = "idle"
    /\ ~rag_system
    /\ \E q \in Questions : arg' = [arg EXCEPT ![r] = q]
    /\ pc' = [pc EXCEPT ![r] = "run_check"]
    /\ UNCHANGED <<shared, state, result, http, history, gvars>>

\* POST /chat: main.py:92-93 rejects the request, or :98 calls run(message)
Chat(r) ==
    /\ pc[r] = "idle"
    /\ IF ChatGate(rag_system) = "reject"
       THEN /\ http' = [http EXCEPT ![r] = Some(ChatNotReady)]
            /\ pc' = [pc EXCEPT ![r] = "rejected"]
            /\ UNCHANGED arg
       ELSE /\ http' = [http EXCEPT ![r] = Some(ChatPending)]
            /\ pc' = [pc EXCEPT ![r] = "run_check"]
            /\ \E q \in Questions : arg' = [arg EXCEPT ![r] = q]
    /\ UNCHANGED <<shared, state, result, history, gvars>>

\* graph_builder.py:53  if self.graph is None; :56-57 when it is not
RunCheckGraph(r) ==
    /\ pc[r] = "run_check"
    /\ IF graph = 0
       THEN /\ pc' = [pc EXCEPT ![r] = "run_build"]
            /\ UNCHANGED state
       ELSE /\ pc' = [pc EXCEPT ![r] = "guardrail"]
            /\ state' = [state EXCEPT ![r] = RAGState(arg[r], DefaultDocs, DefaultAnswer)]
    /\ UNCHANGED <<shared, arg, result, http, history, gvars>>

\* graph_builder.py:54  self.build(), then :56-57
RunBuild(r) ==
    /\ pc[r] = "run_build"
    /\ graph' = graphBuilds + 1
    /\ graphBuilds' = graphBuilds + 1
    /\ pc' = [pc EXCEPT ![r] = "guardrail"]
    /\ state' = [state EXCEPT ![r] = RAGState(arg[r], DefaultDocs, DefaultAnswer)]
    /\ UNCHANGED <<rag_system, agent, agentBuilds, arg, result, http, history, gvars>>

\* the response of /chat to a run that returned res (main.py:98-121); a
\* direct call has none
Respond(r, res) == IF http[r] # NoneVal THEN Some(ChatOk(res)) ELSE NoneVal

\* the guardrail node, then the conditional edge out of it
GuardrailStage(r) ==
    /\ pc[r] = "guardrail"
    /\ \E rep \in Replies :
        LET s == guardrail(state[r], rep) IN
        /\ state' = [state EXCEPT ![r] = s]
        /\ reply' = [reply EXCEPT ![r] = Some(rep)]
        /\ calls' = [calls EXCEPT ![r].llm = @ + GuardrailCalls(rep)]
        /\ pc' = [pc EXCEPT ![r] = AfterGuardrail(s)]
        /\ result' = [result EXCEPT ![r] =
                         IF AfterGuardrail(s) = "done" THEN Some(s) ELSE NoneVal]
        /\ http' = [http EXCEPT ![r] =
                         IF AfterGuardrail(s) = "done" THEN Respond(r, s) ELSE @]
        /\ answerWrites' = [answerWrites EXCEPT ![r] =
                         IF "answer" \in guardrailFields
                         THEN Append(@, <<"guardrail", s.answer>>) ELSE @]
    /\ trace' = [trace EXCEPT ![r] = Append(@, "guardrail")]
    /\ UNCHANGED <<shared, arg, storeDocs, agentMsgs, retrieveInvoked, error, gvars>>

\* faulty variant: the stage's state lives on the shared RAGNodes instance, so the
\* update reaches every invocation that is between its stages
RetrieverStage_shared(r) ==
    /\ pc[r] = "retriever"
    /\ LET s == retrieve_docs(state[r]) IN
        /\ state' = [x \in Runs |->
                        IF x = r \/ pc[x] \in {"retriever", "responder", "build_agent",
                                               "invoke_agent"}
                        THEN s ELSE state[x]]
        /\ storeDocs' = [storeDocs EXCEPT ![r] = Some(Retrieve(state[r].question))]
    /\ retrieveInvoked' = [retrieveInvoked EXCEPT ![r] = TRUE]
    /\ trace' = [trace EXCEPT ![r] = Append(@, "retriever")]
    /\ pc' = [pc EXCEPT ![r] = "responder"]
    /\ UNCHANGED <<shared, arg, result, http, reply, agentMsgs, answerWrites,
                   error, calls, gvars>>

\* the retriever node, then the edge retriever -> responder
RetrieverStage(r) ==
    /\ pc[r] = "retriever"
    /\ LET s == retrieve_docs(state[r]) IN
        /\ state' = [state EXCEPT ![r] = s]
        /\ storeDocs' = [storeDocs EXCEPT ![r] = Some(Retrieve(state[r].question))]
        /\ answerWrites' = [answerWrites EXCEPT ![r] =
                         IF "answer" \in retrieveFields
                         THEN Append(@, <<"retriever", s.answer>>) ELSE @]
    /\ retrieveInvoked' = [retrieveInvoked EXCEPT ![r] = TRUE]
    /\ trace' = [trace EXCEPT ![r] = Append(@, "retriever")]
    /\ pc' = [pc EXCEPT ![r] = "responder"]
    /\ UNCHANGED <<shared, arg, result, http, reply, agentMsgs, error, calls, gvars>>

\* the responder node begins: reactnode.py:113  if self._agent is None
ResponderCheck(r) ==
    /\ pc[r] = "responder"
    /\ pc' = [pc EXCEPT ![r] = IF agent = 0 THEN "build_agent" ELSE "invoke_agent"]
    /\ trace' = [trace EXCEPT ![r] = Append(@, "responder")]
    /\ UNCHANGED <<shared, arg, state, result, http, reply, storeDocs, agentMsgs,
                   retrieveInvoked, answerWrites, error, calls, gvars>>

\* reactnode.py:114  self._build_agent()
BuildAgent(r) ==
    /\ pc[r] = "build_agent"
    /\ agent' = agentBuilds + 1
    /\ agentBuilds' = agentBuilds + 1
    /\ pc' = [pc EXCEPT ![r] = "invoke_agent"]
    /\ UNCHANGED <<rag_system, graph, graphBuilds, arg, state, result, http,
                   history, gvars>>

\* reactnode.py:116-128, then the edge responder -> END and run's return;
\* tool: the agent called its retriever tool (reactnode.py:74-75)
InvokeAgent(r) ==
    /\ pc[r] = "invoke_agent"
    /\ \E msgs \in AgentResults, tool \in BOOLEAN :
        LET s == generate_answer(state[r], msgs) IN
        /\ state' = [state EXCEPT ![r] = s]
        /\ agentMsgs' = [agentMsgs EXCEPT ![r] = Some(msgs)]
        /\ retrieveInvoked' = [retrieveInvoked EXCEPT ![r] = @ \/ tool]
        /\ result' = [result EXCEPT ![r] = Some(s)]
        /\ http' = [http EXCEPT ![r] = Respond(r, s)]
        /\ answerWrites' = [answerWrites EXCEPT ![r] =
                         IF "answer" \in generateFields
                         THEN Append(@, <<"responder", s.answer>>) ELSE @]
    /\ calls' = [calls EXCEPT ![r].agent = @ + 1]
    /\ pc' = [pc EXCEPT ![r] = "done"]
    /\ UNCHANGED <<shared, arg, reply, storeDocs, trace, error, gvars>>

\* faulty variant: the Retrieval Stage catches the Document Store's exception
\* and goes on to the Answer Stage
Raise_caught(r) ==
    /\ pc[r] \in {"guardrail", "retriever", "build_agent", "invoke_agent"}
    /\ trace' = [trace EXCEPT ![r] =
                    IF pc[r] \in {"guardrail", "retriever"} THEN Append(@, pc[r]) ELSE @]
    /\ calls' = [calls EXCEPT ![r] =
                    CASE pc[r] = "guardrail" -> [@ EXCEPT !.llm = @ + 1]
                      [] pc[r] = "invoke_agent" -> [@ EXCEPT !.agent = @ + 1]
                      [] OTHER -> @]
    /\ retrieveInvoked' = [retrieveInvoked EXCEPT ![r] = @ \/ pc[r] = "retriever"]
    /\ error' = [error EXCEPT ![r] = Some(ErrorText(pc[r]))]
    /\ http' = [http EXCEPT ![r] =
                    IF @ # NoneVal THEN Some(ChatError(ErrorText(pc[r]))) ELSE @]
    /\ pc' = [pc EXCEPT ![r] = IF pc[r] = "retriever" THEN "responder" ELSE "raised"]
    /\ UNCHANGED <<shared, arg, state, result, reply, storeDocs, agentMsgs,
                   answerWrites, gvars>>

\* faulty variant: a failed construction leaves a half-built agent in the slot
Raise_partial(r) ==
    /\ pc[r] \in {"guardrail", "retriever", "build_agent", "invoke_agent"}
    /\ trace' = [trace EXCEPT ![r] =
                    IF pc[r] \in {"guardrail", "retriever"} THEN Append(@, pc[r]) ELSE @]
    /\ calls' = [calls EXCEPT ![r] =
                    CASE pc[r] = "guardrail" -> [@ EXCEPT !.llm = @ + 1]
                      [] pc[r] = "invoke_agent" -> [@ EXCEPT !.agent = @ + 1]
                      [] OTHER -> @]
    /\ retrieveInvoked' = [retrieveInvoked EXCEPT ![r] = @ \/ pc[r] = "retriever"]
    /\ error' = [error EXCEPT ![r] = Some(ErrorText(pc[r]))]
    /\ http' = [http EXCEPT ![r] =
                    IF @ # NoneVal THEN Some(ChatError(ErrorText(pc[r]))) ELSE @]
    /\ pc' = [pc EXCEPT ![r] = "raised"]
    /\ agent' = IF pc[r] = "build_agent" THEN agentBuilds + 1 ELSE agent
    /\ UNCHANGED <<rag_system, graph, graphBuilds, agentBuilds, arg, state, result,
                   reply, storeDocs, agentMsgs, answerWrites, gvars>>

\* an external call raises: the Language Model (reactnode.py:47), the
\* Document Store (:65), the agent's construction (:109) or invocation (:116);
\* no stage and neither build nor run catches it, and /chat answers 500
\* (main.py:123-124)
Raise(r) ==
    /\ pc[r] \in {"guardrail", "retriever", "build_agent", "invoke_agent"}
    /\ trace' = [trace EXCEPT ![r] =
                    IF pc[r] \in {"guardrail", "retriever"} THEN Append(@, pc[r]) ELSE @]
    /\ calls' = [calls EXCEPT ![r] =
                    CASE pc[r] = "guardrail" -> [@ EXCEPT !.llm = @ + 1]
                      [] pc[r] = "invoke_agent" -> [@ EXCEPT !.agent = @ + 1]
                      [] OTHER -> @]
    /\ retrieveInvoked' = [retrieveInvoked EXCEPT ![r] = @ \/ pc[r] = "retriever"]
    /\ error' = [error EXCEPT ![r] = Some(ErrorText(pc[r]))]
    /\ http' = [http EXCEPT ![r] =
                    IF @ # NoneVal THEN Some(ChatError(ErrorText(pc[r]))) ELSE @]
    /\ pc' = [pc EXCEPT ![r] = "raised"]
    /\ UNCHANGED <<shared, arg, state, result, reply, storeDocs, agentMsgs,
                   answerWrites, gvars>>

Next ==
    \/ EagerBuild
    \/ \E r \in Runs : Run(r)
    \/ \E r \in Runs : Chat(r)
    \/ \E r \in Runs : RunCheckGraph(r)
    \/ \E r \in Runs : RunBuild(r)
    \/ \E r \in Runs : GuardrailStage(r)
    \/ \E r \in Runs : RetrieverStage(r)
    \/ \E r \in Runs : ResponderCheck(r)
    \/ \E r \in Runs : BuildAgent(r)
    \/ \E r \in Runs : InvokeAgent(r)
    \/ \E r \in Runs : Raise(r)

Spec == Init /\ [][Next]_vars

\* ------------------------------------------- the guardrail on one reply
ReplyChars == {"N", "O", "E", "n", "o", " ", "."}
BoundedReplies == UNION {[1..n -> ReplyChars] : n \in 0..MaxReplyLen}

InitGuardrail ==
    /\ InitWorkflow
    /\ gpc = "input"
    /\ gquestion \in Questions
    /\ greply \in BoundedReplies
    /\ gstate = RAGState(gquestion, DefaultDocs, DefaultAnswer)

\* reactnode.py:47-60 applied to the reply drawn
ApplyGuardrail ==
    /\ gpc = "input"
    /\ gstate' = guardrail(gstate, greply)
    /\ gpc' = AfterGuardrail(gstate')
    /\ UNCHANGED <<gquestion, greply, shared, pc, arg, state, result, http, history>>

NextGuardrail == ApplyGuardrail

SpecGuardrail == InitGuardrail /\ [][NextGuardrail]_vars

\* ------------------------------------------------------------ the claims
Stages == <<"guardrail", "retriever", "responder">>
IsPrefix(s, t) == Len(s) <= Len(t) /\ SubSeq(t, 1, Len(s)) = s
Last(s) == s[Len(s)]

\* the run got a reply of the Language Model that the guardrail refuses
Refused(r) == reply[r] # NoneVal /\ IsRefusal(reply[r][1])

\* C1: in a run whose guardrail reply is classified out-of-domain, answer is
\* exactly the refusal sentence and, from then on, the run never invokes the
\* Document Store's retrieve, by the Retrieval Stage or by the agent's tool.
C1_RefusedNeverRetrieves ==
    \A r \in Runs :
        Refused(r) =>
            /\ state[r].answer = Sentinel
            /\ ~retrieveInvoked[r]
            /\ storeDocs[r] = NoneVal
            /\ agentMsgs[r] = NoneVal

C1_Witness ==
    \E r \in Runs :
        /\ Refused(r) /\ pc[r] = "done"
        /\ \E x \in Runs : x # r /\ retrieveInvoked[x]

\* C2 as stated: no returned state has the refusal sentence as answer together
\* with a non-empty retrieved_docs.
C2_Original ==
    \A r \in Runs :
        result[r] # NoneVal =>
            ~(result[r][1].answer = Sentinel /\ result[r][1].retrieved_docs # <<>>)

\* C2 amended: a run the guardrail refused returns the refusal sentence with
\* retrieved_docs = []; a returned state holds the refusal sentence together
\* with a non-empty retrieved_docs only when the guardrail let the run pass
\* and the agent's own final message was that sentence.
C2_Amended ==
    \A r \in Runs :
        result[r] # NoneVal =>
            /\ Refused(r) =>
                  /\ result[r][1].answer = Sentinel
                  /\ result[r][1].retrieved_docs = <<>>
            /\ (result[r][1].answer = Sentinel /\ result[r][1].retrieved_docs # <<>>) =>
                  /\ ~Refused(r)
                  /\ agentMsgs[r] # NoneVal
                  /\ GetContent(Last(agentMsgs[r][1])) = Some(Sentinel)

C2_Witness ==
    /\ \E r \in Runs : result[r] # NoneVal /\ Refused(r)
    /\ \E r \in Runs :
          /\ result[r] # NoneVal
          /\ result[r][1].answer = Sentinel
          /\ result[r][1].retrieved_docs # <<>>

\* C3: the stages of a run execute in the order guardrail, retriever,
\* responder, each at most once and each only after the one before it has
\* finished; a run that has returned executed the guardrail alone or all
\* three, so it ended after at most 3 stage executions.
C3_StageOrder ==
    \A r \in Runs :
        /\ IsPrefix(trace[r], Stages)
        /\ pc[r] \in {"idle", "run_check", "run_build", "guardrail"} => trace[r] = <<>>
        /\ pc[r] = "retriever" => trace[r] = <<"guardrail">>
        /\ pc[r] = "responder" => trace[r] = <<"guardrail", "retriever">>
        /\ pc[r] \in {"build_agent", "invoke_agent"} => trace[r] = Stages
        /\ pc[r] = "done" => trace[r] \in {<<"guardrail">>, Stages}

C3_Witness ==
    \E r, x \in Runs :
        /\ pc[r] = "done" /\ trace[r] = Stages
        /\ pc[x] = "done" /\ trace[x] = <<"guardrail">>

\* C4: when the guardrail stage finishes, the run ends exactly when the
\* resulting answer contains the refusal phrase, and goes to the retriever in
\* every other case.
C4_Branch ==
    [][\A r \in Runs :
          (pc[r] = "guardrail" /\ pc'[r] \notin {"guardrail", "raised"}) =>
              /\ pc'[r] \in {"done", "retriever"}
              /\ pc'[r] = "done" <=> Contains(state'[r].answer, SentinelSub)
              /\ pc'[r] = "done" <=> result'[r] # NoneVal]_vars

C4_Witness ==
    \E r, x \in Runs :
        /\ pc[r] = "retriever" /\ ~Contains(state[r].answer, SentinelSub)
        /\ pc[x] = "done" /\ trace[x] = <<"guardrail">>

\* "NO", in either case of each letter, at two adjacent places of the reply
HasNO(rep) ==
    \E i \in 1..(Len(rep) - 1) : rep[i] \in {"N", "n"} /\ rep[i + 1] \in {"O", "o"}

\* C5: the guardrail refuses exactly the replies that hold "NO" (in any
\* case, anywhere, whatever surrounds it); every other reply passes with an
\* empty answer; the question has no part in the decision.
C5_Classification ==
    gpc \notin {"off", "input"} =>
        /\ HasNO(greply) => (gstate.answer = Sentinel /\ gpc = "done")
        /\ ~HasNO(greply) => (gstate.answer = EmptyText /\ gpc = "retriever")
        /\ gstate.question = gquestion

C5_Witness ==
    /\ gpc = "done"
    /\ greply \in { <<"N", "O", "N", "E">>, <<" ", "n", "o", ".">> }
    /\ gquestion = "Who is the HOD?"

\* C6: right after the Retrieval Stage of an in-domain run, retrieved_docs
\* is the sequence the Document Store returns for the run's question: same
\* elements, same order, possibly empty.
C6_RetrievedDocs ==
    \A r \in Runs :
        pc[r] = "responder" =>
            /\ ~Refused(r)
            /\ storeDocs[r] = Some(Retrieve(arg[r]))
            /\ state[r].retrieved_docs = Retrieve(arg[r])

C6_Witness ==
    \E r, x \in Runs :
        /\ pc[r] = "responder" /\ state[r].retrieved_docs = <<"d2", "d1", "d3">>
        /\ pc[x] = "responder" /\ state[x].retrieved_docs = <<>>

\* the agent returned no message, or a last message without usable content
NoFinalContent(msgs) ==
    \/ msgs = <<>>
    \/ "content" \notin DOMAIN Last(msgs)
    \/ Last(msgs).content = NoneVal
    \/ Last(msgs).content = Some(EmptyText)

\* C7: when the agent returns no messages, or a last message with empty or
\* absent content, run returns the fallback sentence; and whatever the agent
\* returns, retrieved_docs is what the Retrieval Stage produced and question
\* is unchanged.
C7_Fallback ==
    \A r \in Runs :
        (result[r] # NoneVal /\ agentMsgs[r] # NoneVal) =>
            /\ NoFinalContent(agentMsgs[r][1]) => result[r][1].answer = Fallback
            /\ result[r][1].retrieved_docs = storeDocs[r][1]
            /\ result[r][1].question = arg[r]

C7_Witness ==
    \E r \in Runs :
        /\ result[r] # NoneVal
        /\ agentMsgs[r] = Some(<<Msg(AnswerText), Msg(EmptyText)>>)
        /\ storeDocs[r] = Some(<<"d2", "d1", "d3">>)

\* what the stages make of one run's own question and own results
OwnState(r) ==
    LET s0 == RAGState(arg[r], DefaultDocs, DefaultAnswer)
        s1 == IF reply[r] # NoneVal THEN guardrail(s0, reply[r][1]) ELSE s0
        s2 == IF storeDocs[r] # NoneVal THEN retrieve_docs(s1) ELSE s1
    IN IF agentMsgs[r] # NoneVal THEN generate_answer(s2, agentMsgs[r][1]) ELSE s2

\* C8: under every interleaving, the state of each run, and what it
\* returns, is determined by its own question and its own Language Model,
\* Document Store and agent results.
C8_Isolation ==
    \A r \in Runs :
        /\ pc[r] \notin {"idle", "run_check", "run_build"} => state[r] = OwnState(r)
        /\ result[r] # NoneVal => result[r] = Some(OwnState(r))

C8_Witness ==
    \E r, x \in Runs :
        /\ pc[r] = "invoke_agent" /\ pc[x] = "done"
        /\ arg[r] # arg[x]
        /\ storeDocs[r] # NoneVal /\ storeDocs[x] # NoneVal
        /\ storeDocs[r] # storeDocs[x]
        /\ agent = 2

\* C9: the agent and the compiled graph are each constructed at most once
\* per orchestrator instance.
C9_BuiltOnce == graphBuilds <= 1 /\ agentBuilds <= 1

\* the writes of answer that gave it a non-empty value
NonEmptyWrites(r) ==
    {i \in 1..Len(answerWrites[r]) : answerWrites[r][i][2] # EmptyText}

\* C10 as stated: in a run that returned, answer was written exactly once,
\* by the stage that ended the pipeline.
C10_Original ==
    \A r \in Runs :
        pc[r] = "done" =>
            /\ Len(answerWrites[r]) = 1
            /\ answerWrites[r][1][1] = Last(trace[r])

\* C10 amended: in a run that returned, answer was given a non-empty value
\* exactly once, by the last write, made by the stage that ended the pipeline
\* (the guardrail on a refused run, the responder otherwise); the only other
\* write is the guardrail's, of the empty string, on a run it lets pass; the
\* retriever never passes an answer.
C10_Amended ==
    \A r \in Runs :
        /\ \A i \in 1..Len(answerWrites[r]) : answerWrites[r][i][1] # "retriever"
        /\ Cardinality(NonEmptyWrites(r)) <= 1
        /\ pc[r] = "done" =>
              /\ NonEmptyWrites(r) = {Len(answerWrites[r])}
              /\ Last(answerWrites[r])[1] = Last(trace[r])
              /\ Last(answerWrites[r])[1] = IF Refused(r) THEN "guardrail" ELSE "responder"
              /\ Last(answerWrites[r])[2] = result[r][1].answer
              /\ \A i \in 1..(Len(answerWrites[r]) - 1) :
                    answerWrites[r][i] = <<"guardrail", EmptyText>>

C10_Witness ==
    \E r, x \in Runs :
        /\ pc[r] = "done" /\ Len(answerWrites[r]) = 2
        /\ pc[x] = "done" /\ Len(answerWrites[x]) = 1

\* the run came in as a /chat request, and the response it got
IsChat(r) == http[r] # NoneVal
Status(r) == http[r][1].status
Started(r) == pc[r] \notin {"idle", "run_check", "run_build", "rejected"}

\* C11: question is set once, by run, and never changed: after every
\* stage of every run, and in the state run returns, question is the question
\* that was passed to run.
C11_QuestionKept ==
    \A r \in Runs :
        /\ Started(r) => state[r].question = arg[r]
        /\ result[r] # NoneVal => result[r][1].question = arg[r]

C11_Witness ==
    \E r, x \in Runs :
        /\ arg[r] = "Who is the HOD?" /\ result[r] # NoneVal /\ trace[r] = Stages
        /\ arg[x] = "Hi" /\ result[x] # NoneVal /\ Refused(x)

\* where the run was when the exception was raised, from the error's text
FailedAt(r) ==
    CASE error[r] = Some(ErrorText("guardrail")) -> "guardrail"
      [] error[r] = Some(ErrorText("retriever")) -> "retriever"
      [] error[r] = Some(ErrorText("build_agent")) -> "build_agent"
      [] OTHER -> "invoke_agent"

\* C12: when the Language Model call, the Document Store call, or the
\* agent's construction or invocation raises, no stage catches it: the run
\* stops where it failed, no later stage runs, no call is made again, run
\* returns no state, and /chat answers 500 with the error's text and neither
\* an answer nor citations.
C12_RaisePropagates ==
    \A r \in Runs :
        /\ pc[r] = "raised" <=> error[r] # NoneVal
        /\ error[r] # NoneVal =>
            /\ result[r] = NoneVal
            /\ calls[r].llm <= 1 /\ calls[r].agent <= 1
            /\ FailedAt(r) = "guardrail" =>
                  /\ trace[r] = <<"guardrail">> /\ reply[r] = NoneVal
                  /\ storeDocs[r] = NoneVal /\ calls[r].agent = 0
            /\ FailedAt(r) = "retriever" =>
                  /\ trace[r] = <<"guardrail", "retriever">>
                  /\ storeDocs[r] = NoneVal /\ calls[r].agent = 0
            /\ FailedAt(r) = "build_agent" => calls[r].agent = 0
            /\ agentMsgs[r] = NoneVal
            /\ IsChat(r) =>
                  /\ Status(r) = 500
                  /\ http[r][1].detail = error[r][1]
                  /\ DOMAIN http[r][1] = {"status", "detail"}

C12_Witness ==
    \E r, x \in Runs :
        /\ error[r] = Some("store error") /\ http[r] = Some(ChatError("store error"))
        /\ error[x] = Some("agent error") /\ Status(x) = 500

\* C13: while the host has not finished its initialization, every /chat
\* request is answered 503 "still initializing", runs nothing of the workflow
\* and never gets a 500; a /chat request runs the workflow only once the
\* graph is built.
C13_NotReady ==
    \A r \in Runs :
        IsChat(r) =>
            /\ ~rag_system => http[r] = Some(ChatNotReady)
            /\ Status(r) = 503 =>
                  /\ pc[r] = "rejected" /\ trace[r] = <<>> /\ calls[r] = NoCalls
                  /\ result[r] = NoneVal /\ error[r] = NoneVal /\ state[r] = NoState
            /\ Status(r) # 503 => rag_system /\ graph # 0 /\ pc[r] # "run_build"

C13_Witness ==
    \E r, x \in Runs :
        /\ http[r] = Some(ChatNotReady) /\ pc[r] = "rejected"
        /\ IsChat(x) /\ Status(x) = 200 /\ trace[x] = Stages

\* the state the guardrail left to the Retrieval Stage of run r
GuardrailState(r) == guardrail(RAGState(arg[r], DefaultDocs, DefaultAnswer), reply[r][1])

\* C14: the Retrieval Stage changes retrieved_docs only: after it, answer
\* is what it was when the stage was entered, the empty string the guardrail
\* left, and question is unchanged.
C14_RetrievalFrame ==
    \A r \in Runs :
        pc[r] \in {"responder", "build_agent", "invoke_agent"} =>
            /\ GuardrailState(r).answer = EmptyText
            /\ state[r].answer = GuardrailState(r).answer
            /\ state[r].question = GuardrailState(r).question
            /\ state[r] = [GuardrailState(r) EXCEPT !.retrieved_docs = storeDocs[r][1]]

C14_Witness ==
    \E r, x \in Runs :
        /\ pc[r] = "responder" /\ state[r].answer = EmptyText
        /\ state[r].retrieved_docs = <<"d2", "d1", "d3">>
        /\ pc[x] = "invoke_agent" /\ state[x].retrieved_docs = <<>>

\* C15: retrieved_docs of a run changes only in the step of the
\* Retrieval Stage, which happens once, right after a guardrail that did not
\* refuse; the Guardrail Stage leaves it unset and the Answer Stage leaves
\* it as it is.
C15_DocsOnce ==
    [][\A r \in Runs :
          /\ state'[r].retrieved_docs # state[r].retrieved_docs =>
                /\ pc[r] = "retriever" /\ pc'[r] = "responder"
                /\ trace[r] = <<"guardrail">> /\ ~Refused(r)
                /\ state[r].retrieved_docs = DefaultDocs
          /\ (pc[r] = "guardrail" /\ pc'[r] # "guardrail") =>
                state'[r].retrieved_docs = DefaultDocs
          /\ (pc[r] = "invoke_agent" /\ pc'[r] = "done") =>
                /\ state'[r].retrieved_docs = state[r].retrieved_docs
                /\ result'[r][1].retrieved_docs = state[r].retrieved_docs
      ]_vars

C15_Witness ==
    \E r, x \in Runs :
        /\ pc[r] = "done" /\ trace[r] = Stages
        /\ result[r][1].retrieved_docs = <<"d2", "d1", "d3">>
        /\ pc[x] = "done" /\ Refused(x) /\ result[x][1].retrieved_docs = DefaultDocs

\* C16: the Guardrail Stage calls the Language Model exactly once in a
\* run, whatever the reply, and never again; a refused run makes one
\* Language Model call in all and never invokes the agent.
C16_OneCall ==
    \A r \in Runs :
        /\ calls[r].llm <= 1
        /\ reply[r] # NoneVal => calls[r].llm = 1
        /\ (trace[r] # <<>>) <=> (calls[r].llm = 1)
        /\ Refused(r) => calls[r] = [llm |-> 1, agent |-> 0] /\ pc[r] = "done"

C16_Witness ==
    \E r, x \in Runs :
        /\ reply[r] = Some(<<" ", "n", "o", ".">>) /\ pc[r] = "done"
        /\ calls[r] = [llm |-> 1, agent |-> 0]
        /\ reply[x] = Some(<<"Y", "E", "S">>) /\ calls[x] = [llm |-> 1, agent |-> 1]

\* C17: a /chat request that succeeds carries one citation for each
\* record of the run's retrieved_docs, in the same order (three passages
\* give three citations); a refused request carries the refusal sentence and
\* no citation.
C17_Citations ==
    \A r \in Runs :
        (IsChat(r) /\ Status(r) = 200) =>
            LET docs == result[r][1].retrieved_docs
                cites == http[r][1].citations
            IN /\ http[r][1].answer = result[r][1].answer
               /\ Len(cites) = Len(docs)
               /\ \A i \in 1..Len(docs) :
                     /\ cites[i].source = SourceLabel(Metadata(docs[i]))
                     /\ IsPrefix(SubSeq(cites[i].page_content, 1,
                                        Len(cites[i].page_content) - 1),
                                 PageContent(docs[i]))
               /\ Refused(r) => http[r][1].answer = Sentinel /\ cites = <<>>

C17_Witness ==
    \E r, x \in Runs :
        /\ IsChat(r) /\ Status(r) = 200 /\ Len(http[r][1].citations) = 3
        /\ Len(http[r][1].citations[3].page_content) = SnippetLen + 1
        /\ IsChat(x) /\ Status(x) = 200 /\ Refused(x)

\* C18: an agent construction that raises leaves the shared agent slot
\* as it was, unset when the request found it unset, with everything else the
\* orchestrator shares; a request that then reaches the Answer Stage
\* constructs the agent again.
C18_FailedBuild ==
    [][\A r \in Runs :
          /\ (pc[r] = "build_agent" /\ pc'[r] = "raised") =>
                /\ agent' = agent /\ agentBuilds' = agentBuilds
                /\ graph' = graph /\ rag_system' = rag_system
          /\ (pc[r] = "responder" /\ pc'[r] # "responder" /\ agent = 0) =>
                pc'[r] = "build_agent"
      ]_vars

C18_Witness ==
    \E r, x \in Runs :
        /\ error[r] = Some("agent construction error")
        /\ agent = 0 /\ agentBuilds = 0
        /\ pc[x] = "build_agent" /\ trace[x] = Stages

\* the content of the agent's last message, when it has one that counts
FinalContent(msgs) == IF NoFinalContent(msgs) THEN NoneVal ELSE Last(msgs).content

\* C19: a run that completes returns a non-empty answer: the refusal
\* sentence of a refused run, else the content of the agent's last message,
\* else the fallback sentence; never the empty answer the guardrail wrote.
C19_AnswerNonEmpty ==
    \A r \in Runs :
        /\ pc[r] = "done" => result[r] # NoneVal
        /\ result[r] # NoneVal =>
            LET answer == result[r][1].answer IN
            /\ answer # EmptyText
            /\ IF Refused(r) THEN answer = Sentinel
               ELSE IF FinalContent(agentMsgs[r][1]) # NoneVal
                    THEN answer = FinalContent(agentMsgs[r][1])[1]
                    ELSE answer = Fallback

C19_Witness ==
    \E r, x \in Runs :
        /\ result[r] # NoneVal /\ result[r][1].answer = Sentinel
        /\ result[x] # NoneVal /\ agentMsgs[x] = Some(<<>>)
        /\ result[x][1].answer = Fallback

====
